---- MODULE Spec2Model ----
(***************************************************************************)
(* Model of the MHT -> flashcard converter of anki-onenote-importer:        *)
(*   Parser (parser.py), Attachment / Text / MetaData (emaildata/*.py).     *)
(*                                                                         *)
(* Python strings are sequences of one-character strings, e.g.             *)
(* "/d/a/i" is <<"/","d","/","a","/","i">>.  The value None is the          *)
(* one-element sequence None below, which is different from every text.    *)
(***************************************************************************)
EXTENDS Integers, Sequences, FiniteSets, TLC

None == <<"<None>">>

Min2(a, b) == IF a < b THEN a ELSE b

(* s[i:] and s[:i] of Python, with the 0-based i of the source *)
From(s, i) == IF i >= Len(s) THEN <<>> ELSE SubSeq(s, i + 1, Len(s))
Upto(s, i) == IF i <= 0 THEN <<>> ELSE SubSeq(s, 1, Min2(i, Len(s)))

(* str.find(c): 0-based index of the first occurrence of a character, or -1 *)
RECURSIVE FindFrom(_, _, _)
FindFrom(s, c, i) ==
    IF i >= Len(s) THEN -1
    ELSE IF s[i + 1] = c THEN i
    ELSE FindFrom(s, c, i + 1)

find(s, c) == FindFrom(s, c, 0)

(* str.rfind(c) *)
RECURSIVE RFindFrom(_, _, _)
RFindFrom(s, c, i) ==
    IF i < 0 THEN -1
    ELSE IF s[i + 1] = c THEN i
    ELSE RFindFrom(s, c, i - 1)

rfind(s, c) == RFindFrom(s, c, Len(s) - 1)

startswith(s, p) == Len(s) >= Len(p) /\ SubSeq(s, 1, Len(p)) = p

endswith(s, p) == Len(s) >= Len(p) /\ SubSeq(s, Len(s) - Len(p) + 1, Len(s)) = p

(* str.split(c): the pieces between the occurrences of c *)
RECURSIVE split(_, _)
split(s, c) ==
    LET i == find(s, c)
    IN  IF i = -1 THEN <<s>>
        ELSE <<Upto(s, i)>> \o split(From(s, i + 1), c)

(* c.join(parts) *)
RECURSIVE join(_, _)
join(parts, c) ==
    IF parts = <<>> THEN <<>>
    ELSE IF Len(parts) = 1 THEN parts[1]
    ELSE parts[1] \o <<c>> \o join(Tail(parts), c)

(* s.rstrip(c) *)
RECURSIVE rstrip(_, _)
rstrip(s, c) ==
    IF s # <<>> /\ s[Len(s)] = c THEN rstrip(SubSeq(s, 1, Len(s) - 1), c) ELSE s

(***************************************************************************)
(* urlparse.urlparse(url).path (Python 2.7 urlsplit), for URLs without ';' *)
(* and without digits.  urlparse(None) raises: callers test for None.      *)
(***************************************************************************)
SchemeChars == {"a", "b", "c", "d", "f", "i", "j", "k", "p", "x", "."}

(* the scheme is removed when the text before the first ':' is made of     *)
(* scheme characters; what follows the ':' may be empty ("if not rest")    *)
SchemeStripped(url) ==
    LET i == find(url, ":")
    IN  IF i > 0 /\ (\A n \in 1..i : url[n] \in SchemeChars)
        THEN From(url, i + 1)
        ELSE url

(* _splitnetloc(url, 2): the network location ends at the first of / ? # *)
RECURSIVE NetlocEnd(_, _)
NetlocEnd(url, i) ==
    IF i >= Len(url) THEN Len(url)
    ELSE IF url[i + 1] \in {"/", "?", "#"} THEN i
    ELSE NetlocEnd(url, i + 1)

NetlocStripped(url) ==
    IF Upto(url, 2) = <<"/", "/">> THEN From(url, NetlocEnd(url, 2)) ELSE url

CutAt(url, c) == IF find(url, c) = -1 THEN url ELSE Upto(url, find(url, c))

urlparse_path(url) == CutAt(CutAt(NetlocStripped(SchemeStripped(url)), "#"), "?")

(***************************************************************************)
(* os.path (posixpath) functions used by Parser                            *)
(***************************************************************************)
initial_slashes(path) ==
    IF ~startswith(path, <<"/">>) THEN 0
    ELSE IF startswith(path, <<"/", "/">>) /\ ~startswith(path, <<"/", "/", "/">>) THEN 2
    ELSE 1

(* the loop of normpath over the components of the path *)
RECURSIVE NormComps(_, _, _)
NormComps(comps, new_comps, slashes) ==
    IF comps = <<>> THEN new_comps
    ELSE LET comp == Head(comps)
             n    == Len(new_comps)
         IN  IF comp \in {<<>>, <<".">>} THEN NormComps(Tail(comps), new_comps, slashes)
             ELSE IF \/ comp # <<".", ".">>
                     \/ (slashes = 0 /\ n = 0)
                     \/ (n > 0 /\ new_comps[n] = <<".", ".">>)
                  THEN NormComps(Tail(comps), Append(new_comps, comp), slashes)
             ELSE IF n > 0
                  THEN NormComps(Tail(comps), SubSeq(new_comps, 1, n - 1), slashes)
             ELSE NormComps(Tail(comps), new_comps, slashes)

normpath(path) ==
    IF path = <<>> THEN <<".">>
    ELSE LET s      == initial_slashes(path)
             joined == join(NormComps(split(path, "/"), <<>>, s), "/")
             full   == [n \in 1..s |-> "/"] \o joined
         IN  IF full = <<>> THEN <<".">> ELSE full

basename(p) == From(p, rfind(p, "/") + 1)

dirname(p) ==
    LET head == Upto(p, rfind(p, "/") + 1)
    IN  IF head # <<>> /\ head # [n \in 1..Len(head) |-> "/"] THEN rstrip(head, "/") ELSE head

(* os.path.join(a, b) *)
path_join(a, b) ==
    IF startswith(b, <<"/">>) THEN b
    ELSE IF a = <<>> \/ endswith(a, <<"/">>) THEN a \o b
    ELSE a \o <<"/">> \o b

(***************************************************************************)
(* Token Decoder: email.header.decode_header (Python 2.7) and the decode   *)
(* helper of Attachment.decode_filename / MetaData._address.               *)
(*                                                                         *)
(* A header is a sequence of tokens.  A token is a character, the byte     *)
(* 0xE9 (written "e9", not ASCII), or a whole RFC2047 encoded word.        *)
(* Considered headers contain no encoded word that lacks its delimiter     *)
(* (a following blank or the end) and is followed later by a delimited     *)
(* one: the library's pattern would match those two as one word.           *)
(***************************************************************************)
EWordOk  == "=?utf-8?b?Sg==?="     \* "J" in UTF-8
EWordBad == "=?utf-8?b?6Q==?="     \* the byte E9, invalid as UTF-8
EWordOdd == "=?utf-16?b?YQ==?="    \* the byte "a", truncated as UTF-16
EWordUnk == "=?x-unk?b?Sg==?="     \* "J" in a charset Python does not know

EWords == {EWordOk, EWordBad, EWordOdd, EWordUnk}

(* the characters of an encoded word *)
EWordChars(t) ==
    CASE t = EWordOk  -> <<"=", "?", "u", "t", "f", "-", "8", "?", "b", "?",
                           "S", "g", "=", "=", "?", "=">>
      [] t = EWordBad -> <<"=", "?", "u", "t", "f", "-", "8", "?", "b", "?",
                           "6", "Q", "=", "=", "?", "=">>
      [] t = EWordOdd -> <<"=", "?", "u", "t", "f", "-", "1", "6", "?", "b", "?",
                           "Y", "Q", "=", "=", "?", "=">>
      [] t = EWordUnk -> <<"=", "?", "x", "-", "u", "n", "k", "?", "b", "?",
                           "S", "g", "=", "=", "?", "=">>

(* the characters of a text: an encoded word that decode_header left as it *)
(* is (no blank or end after it) is plain text, character by character     *)
RECURSIVE Chars(_)
Chars(s) ==
    IF s = <<>> THEN <<>>
    ELSE (IF Head(s) \in EWords THEN EWordChars(Head(s)) ELSE <<Head(s)>>) \o Chars(Tail(s))

(* the decoded bytes and the lower-cased charset of an encoded word *)
EWordBytes(t) ==
    CASE t = EWordOk  -> <<"J">>
      [] t = EWordBad -> <<"e9">>
      [] t = EWordOdd -> <<"a">>
      [] t = EWordUnk -> <<"J">>

EWordCharset(t) ==
    CASE t = EWordOk  -> "utf-8"
      [] t = EWordBad -> "utf-8"
      [] t = EWordOdd -> "utf-16"
      [] t = EWordUnk -> "x-unk"

Whitespace == {" "}

(* ecre matches an encoded word only before a blank or at the end *)
IsEncodedWord(h, n) == h[n] \in EWords /\ (n = Len(h) \/ h[n + 1] \in Whitespace)

HasEncodedWord(h) == \E n \in 1..Len(h) : IsEncodedWord(h, n)

(* unicode.strip() / str.strip() *)
RECURSIVE lstrip_ws(_)
lstrip_ws(s) == IF s # <<>> /\ s[1] \in Whitespace THEN lstrip_ws(Tail(s)) ELSE s

RECURSIVE rstrip_ws(_)
rstrip_ws(s) ==
    IF s # <<>> /\ s[Len(s)] \in Whitespace THEN rstrip_ws(SubSeq(s, 1, Len(s) - 1)) ELSE s

stripMut(s) == lstrip_ws(s)

strip(s) == lstrip_ws(rstrip_ws(s))

NoCharset == "None"

(* decode_header, the loop over ecre.split(line): unenc is the text since  *)
(* the last encoded word, decoded the list of (text, charset) so far       *)
AppendUnenc(decoded, unenc) ==
    LET u == strip(unenc)
        n == Len(decoded)
    IN  IF u = <<>> THEN decoded
        ELSE IF n > 0 /\ decoded[n].charset = NoCharset
             THEN [decoded EXCEPT ![n].text = @ \o <<" ">> \o u]
        ELSE Append(decoded, [text |-> u, charset |-> NoCharset])

AppendDec(decoded, t) ==
    LET n == Len(decoded)
    IN  IF n > 0 /\ decoded[n].charset = EWordCharset(t)
        THEN [decoded EXCEPT ![n].text = @ \o EWordBytes(t)]
        ELSE Append(decoded, [text |-> EWordBytes(t), charset |-> EWordCharset(t)])

RECURSIVE SplitParts(_, _, _, _)
SplitParts(h, n, unenc, decoded) ==
    IF n > Len(h) THEN AppendUnenc(decoded, unenc)
    ELSE IF IsEncodedWord(h, n)
         THEN SplitParts(h, n + 1, <<>>, AppendDec(AppendUnenc(decoded, unenc), h[n]))
    ELSE SplitParts(h, n + 1, Append(unenc, h[n]), decoded)

decode_header(h) ==
    IF ~HasEncodedWord(h) THEN <<[text |-> h, charset |-> NoCharset]>>
    ELSE SplitParts(h, 1, <<>>, <<>>)

IsAscii(s) == \A n \in 1..Len(s) : s[n] # "e9"

(* str.decode(encoding): what it returns, or the exception it raises *)
KnownCharsets == {"utf-8", "utf-16"}

RECURSIVE Utf16Chars(_)
Utf16Chars(s) == IF Len(s) < 2 THEN <<>> ELSE <<"u6161">> \o Utf16Chars(Tail(Tail(s)))

str_decode(text, encoding) ==
    IF encoding \notin KnownCharsets THEN [exc |-> "LookupError", val |-> <<>>]
    ELSE IF encoding = "utf-8"
         THEN IF IsAscii(text) THEN [exc |-> "none", val |-> text]
              ELSE [exc |-> "UnicodeDecodeError", val |-> <<>>]
    ELSE IF Len(text) % 2 = 0 THEN [exc |-> "none", val |-> Utf16Chars(text)]
         ELSE [exc |-> "UnicodeDecodeError", val |-> <<>>]

(* the local function decode(text, encoding) of decode_filename and of     *)
(* _address: the piece with its Python type (unicode or byte string), or   *)
(* the exception that leaves it                                            *)
decode(text, encoding) ==
    IF encoding = NoCharset THEN [exc |-> "none", uni |-> FALSE, val |-> text]
    ELSE LET r == str_decode(text, encoding)
         IN  IF r.exc = "none" THEN [exc |-> "none", uni |-> TRUE, val |-> r.val]
             ELSE IF r.exc = "UnicodeDecodeError"
                  THEN [exc |-> "none", uni |-> FALSE, val |-> text]
             ELSE [exc |-> r.exc, uni |-> FALSE, val |-> <<>>]

DecodedPieces(h) ==
    LET pieces == decode_header(h)
    IN  [n \in 1..Len(pieces) |-> decode(pieces[n].text, pieces[n].charset)]

RECURSIVE Concat(_)
Concat(pieces) == IF pieces = <<>> THEN <<>> ELSE Head(pieces).val \o Concat(Tail(pieces))

(* u"".join(pieces).strip(): joining a byte string that is not ASCII to    *)
(* unicode raises UnicodeDecodeError; a piece whose decode raised ends the *)
(* list comprehension with that exception                                  *)
JoinStrip(pieces) ==
    IF \E n \in 1..Len(pieces) : pieces[n].exc # "none"
    THEN [exc |-> pieces[CHOOSE n \in 1..Len(pieces) :
                            /\ pieces[n].exc # "none"
                            /\ \A m \in 1..(n - 1) : pieces[m].exc = "none"].exc,
          val |-> <<>>]
    ELSE IF \E n \in 1..Len(pieces) : ~pieces[n].uni /\ ~IsAscii(pieces[n].val)
         THEN [exc |-> "UnicodeDecodeError", val |-> <<>>]
    ELSE [exc |-> "none", val |-> strip(Concat(pieces))]

(* Attachment.decode_filename: the returned value, or the exception raised *)
decode_filename(filename) ==
    IF filename = None \/ filename = <<>> THEN [exc |-> "none", val |-> filename]
    ELSE LET r == JoinStrip(DecodedPieces(filename))
         IN  IF r.exc \in {"UnicodeDecodeError", "UnicodeEncodeError"}
             THEN [exc |-> "none", val |-> filename]
             ELSE r

(***************************************************************************)
(* email.utils.parseaddr (Python 2.7.18 _parseaddr.AddrlistClass) over the *)
(* tokens: blank, the specials < > @ and the comma; every other token is   *)
(* part of an atom.  Positions are the 0-based self.pos of the library.    *)
(***************************************************************************)
LWS == {" "}
Specials == {"<", ">", "@", ","}
AtomEnds == Specials \cup LWS

At(f, pos) == f[pos + 1]

RECURSIVE gotonext(_, _)
gotonext(f, pos) ==
    IF pos < Len(f) /\ At(f, pos) \in LWS THEN gotonext(f, pos + 1) ELSE pos

RECURSIVE AtomEnd(_, _)
AtomEnd(f, pos) ==
    IF pos < Len(f) /\ At(f, pos) \notin AtomEnds THEN AtomEnd(f, pos + 1) ELSE pos

getatom(f, pos) == [val |-> SubSeq(f, pos + 1, AtomEnd(f, pos)), pos |-> AtomEnd(f, pos)]

RECURSIVE getphraselist(_, _, _)
getphraselist(f, pos, plist) ==
    IF pos >= Len(f) THEN [val |-> plist, pos |-> pos]
    ELSE IF At(f, pos) \in LWS THEN getphraselist(f, pos + 1, plist)
    ELSE IF At(f, pos) \in AtomEnds THEN [val |-> plist, pos |-> pos]
    ELSE getphraselist(f, getatom(f, pos).pos, Append(plist, getatom(f, pos).val))

RECURSIVE getdomain(_, _, _)
getdomain(f, pos, sdlist) ==
    IF pos >= Len(f) THEN [val |-> sdlist, pos |-> pos]
    ELSE IF At(f, pos) \in LWS THEN getdomain(f, pos + 1, sdlist)
    ELSE IF At(f, pos) = "@" THEN [val |-> <<>>, pos |-> pos]
    ELSE IF At(f, pos) \in AtomEnds THEN [val |-> sdlist, pos |-> pos]
    ELSE getdomain(f, getatom(f, pos).pos, sdlist \o getatom(f, pos).val)

RECURSIVE LocalPart(_, _, _)
LocalPart(f, pos, aslist) ==
    IF pos >= Len(f) \/ At(f, pos) \in AtomEnds THEN [val |-> aslist, pos |-> pos]
    ELSE LocalPart(f, gotonext(f, getatom(f, pos).pos), aslist \o getatom(f, pos).val)

getaddrspec(f, pos) ==
    LET l == LocalPart(f, gotonext(f, pos), <<>>)
    IN  IF l.pos >= Len(f) \/ At(f, l.pos) # "@" THEN l
        ELSE LET d == getdomain(f, gotonext(f, l.pos + 1), <<>>)
             IN  IF d.val = <<>> THEN d
                 ELSE [val |-> l.val \o <<"@">> \o d.val, pos |-> d.pos]

RECURSIVE RouteLoop(_, _, _)
RouteLoop(f, pos, expectroute) ==
    IF pos >= Len(f) THEN [val |-> <<>>, pos |-> pos]
    ELSE IF expectroute
         THEN RouteLoop(f, gotonext(f, getdomain(f, pos, <<>>).pos), FALSE)
    ELSE IF At(f, pos) = ">" THEN [val |-> <<>>, pos |-> pos + 1]
    ELSE IF At(f, pos) = "@" THEN RouteLoop(f, gotonext(f, pos + 1), TRUE)
    ELSE [val |-> getaddrspec(f, pos).val, pos |-> getaddrspec(f, pos).pos + 1]

getrouteaddr(f, pos) == RouteLoop(f, gotonext(f, pos + 1), FALSE)

(* the first (name, address) pair of the address list, ('', '') if none *)
parseaddr(f) ==
    LET oldpos == gotonext(f, 0)
        ph     == getphraselist(f, oldpos, <<>>)
        pos    == gotonext(f, ph.pos)
        plist  == ph.val
        nobody == [name |-> <<>>, address |-> <<>>]
    IN  IF f = <<>> THEN nobody
        ELSE IF pos >= Len(f)
             THEN IF plist # <<>> THEN [name |-> <<>>, address |-> plist[1]] ELSE nobody
        ELSE IF At(f, pos) = "@"
             THEN [name |-> <<>>, address |-> getaddrspec(f, oldpos).val]
        ELSE IF At(f, pos) = "<"
             THEN [name |-> join(plist, " "), address |-> getrouteaddr(f, pos).val]
        ELSE IF plist # <<>> THEN [name |-> <<>>, address |-> plist[1]]
        ELSE nobody

(* str.find(sub): 0-based index of the first occurrence of sub, or -1 *)
RECURSIVE FindSubFrom(_, _, _)
FindSubFrom(s, sub, i) ==
    IF i + Len(sub) > Len(s) THEN -1
    ELSE IF SubSeq(s, i + 1, i + Len(sub)) = sub THEN i
    ELSE FindSubFrom(s, sub, i + 1)

find_sub(s, sub) == FindSubFrom(s, sub, 0)

(* unicode.encode('utf-8'), token by token *)
Utf8(t) == IF t = "u6161" THEN <<"e6", "85", "a1">> ELSE <<t>>

RECURSIVE encode(_)
encode(text) == IF text = <<>> THEN <<>> ELSE Utf8(Head(text)) \o encode(Tail(text))

(* the order of byte strings: the code of each byte *)
Ord(t) ==
    CASE t = " "  -> 32   [] t = ","  -> 44   [] t = "-"  -> 45
      [] t = "1"  -> 49   [] t = "6"  -> 54   [] t = "8"  -> 56
      [] t = "<"  -> 60   [] t = "="  -> 61   [] t = ">"  -> 62
      [] t = "?"  -> 63   [] t = "@"  -> 64   [] t = "J"  -> 74
      [] t = "Q"  -> 81   [] t = "S"  -> 83   [] t = "Y"  -> 89
      [] t = "a"  -> 97   [] t = "b"  -> 98   [] t = "f"  -> 102
      [] t = "g"  -> 103  [] t = "k"  -> 107  [] t = "n"  -> 110
      [] t = "t"  -> 116  [] t = "u"  -> 117  [] t = "x"  -> 120
      [] t = "85" -> 133  [] t = "a1" -> 161
      [] t = "e6" -> 230  [] t = "e9" -> 233

RECURSIVE StrLess(_, _)
StrLess(s, t) ==
    IF t = <<>> THEN FALSE
    ELSE IF s = <<>> THEN TRUE
    ELSE IF Ord(Head(s)) # Ord(Head(t)) THEN Ord(Head(s)) < Ord(Head(t))
    ELSE StrLess(Tail(s), Tail(t))

(* sorted(list) of distinct byte strings held in a set *)
RECURSIVE sorted(_)
sorted(S) ==
    IF S = {} THEN <<>>
    ELSE LET m == CHOOSE x \in S : \A y \in S \ {x} : StrLess(x, y)
         IN  <<m>> \o sorted(S \ {m})

(***************************************************************************)
(* MIME parts (email.message.Message).  multi is is_multipart(), ctype is  *)
(* get_content_type(), filename is get_filename(), loc is the              *)
(* Content-Location header, content the decoded payload of a leaf.  bad    *)
(* tells that the payload is a unicode string with a character that is not *)
(* ASCII, under a transfer encoding: decoding it raises UnicodeEncodeError. *)
(* Only a message built in memory has such a part: the payloads of a       *)
(* message read from a file are byte strings.  A payload is a sequence of  *)
(* nodes: the parsed markup of an HTML part, and one text node standing    *)
(* for the bytes of any other part.                                        *)
(***************************************************************************)
Ch(c) == [k |-> "ch", c |-> c, src |-> <<>>, width |-> "", height |-> "", rows |-> <<>>]

Img(src) == [k |-> "img", c |-> "", src |-> src, width |-> "", height |-> "", rows |-> <<>>]

Table(rows) == [k |-> "table", c |-> "", src |-> <<>>, width |-> "", height |-> "", rows |-> rows]

Leaf(id, ctype, loc, content) ==
    [id |-> id, multi |-> FALSE, ctype |-> ctype, filename |-> None, loc |-> loc,
     content |-> content, bad |-> FALSE, kids |-> <<>>]

(* a part whose Content-Disposition names a file; get_filename() strips    *)
(* the name, so filename neither starts nor ends with a blank              *)
NamedLeaf(id, ctype, loc, content, filename) ==
    [id |-> id, multi |-> FALSE, ctype |-> ctype, filename |-> filename, loc |-> loc,
     content |-> content, bad |-> FALSE, kids |-> <<>>]

Multi(id, ctype, loc, kids) ==
    [id |-> id, multi |-> TRUE, ctype |-> ctype, filename |-> None, loc |-> loc,
     content |-> <<>>, bad |-> FALSE, kids |-> kids]

(* Text.decode_content(message): the decoded payload, or the exception *)
decode_content(part) ==
    IF part.bad THEN [exc |-> "UnicodeEncodeError", val |-> <<>>]
    ELSE [exc |-> "none", val |-> part.content]

(* str(attachment) of a multipart part: its flattened text *)
AsString(part) == <<Ch("mime"), Ch(ToString(part.id))>>

Truthy(v) == v # None /\ v # <<>>

(***************************************************************************)
(* Attachment.extract(message, only_with_filename): the sequence of items  *)
(* the generator yields, each (content, filename, mimetype, part).  An     *)
(* exception that the generator does not catch ends the sequence with an   *)
(* item whose exc names it.                                                *)
(***************************************************************************)
YieldedMut(part) ==
    LET content == IF part.multi THEN [exc |-> "none", val |-> AsString(part)]
                   ELSE decode_content(part)
    IN  <<[exc |-> content.exc, content |-> content.val, filename |-> part.filename,
           mimetype |-> part.ctype, part |-> part]>>

Yielded(part) ==
    LET content == IF part.multi THEN [exc |-> "none", val |-> AsString(part)]
                   ELSE decode_content(part)
        fname   == decode_filename(part.filename)
    IN  IF content.exc \in {"UnicodeDecodeError", "UnicodeEncodeError"} THEN <<>>
        ELSE IF fname.exc # "none"
             THEN <<[exc |-> fname.exc, content |-> <<>>, filename |-> None,
                     mimetype |-> "", part |-> part]>>
        ELSE <<[exc |-> "none", content |-> content.val, filename |-> fname.val,
                mimetype |-> part.ctype, part |-> part]>>

Raised(items) == items # <<>> /\ items[Len(items)].exc # "none"

(* attachment.is_multipart() and get_content_type() == 'multipart/alternative' *)
IsAlternativeMut(attachment) == attachment.multi

IsAlternative(attachment) == attachment.multi /\ attachment.ctype = "multipart/alternative"

RECURSIVE extract(_, _)
RECURSIVE ExtractKids(_, _)
ExtractKids(kids, only_with_filename) ==
    IF kids = <<>> THEN <<>>
    ELSE LET attachment == Head(kids)
             items == IF IsAlternative(attachment)
                      THEN extract(attachment, only_with_filename)
                      ELSE IF ~only_with_filename \/ Truthy(attachment.filename)
                           THEN Yielded(attachment)
                      ELSE <<>>
         IN  IF Raised(items) THEN items
             ELSE items \o ExtractKids(Tail(kids), only_with_filename)

extract(message, only_with_filename) ==
    IF message.multi THEN ExtractKids(message.kids, only_with_filename) ELSE <<>>

(***************************************************************************)
(* Text.decoded(message, allowed_mimetypes) and Text.html: the pair        *)
(* (text, Content-Location) of the part found, or None                     *)
(***************************************************************************)
AllMimetypes == {"text/plain", "text/html"}

NotFound == [found |-> FALSE, text |-> <<>>, location |-> None]

RECURSIVE decoded(_, _)
RECURSIVE DecodedKids(_)
DecodedKids(kids) ==
    IF kids = <<>> THEN NotFound
    ELSE LET sub_message == Head(kids)
             result == IF ~sub_message.multi \/ sub_message.ctype = "multipart/alternative"
                       THEN decoded(sub_message, AllMimetypes)
                       ELSE NotFound
         IN  IF result.found THEN result ELSE DecodedKids(Tail(kids))

decoded(message, allowed_mimetypes) ==
    IF ~message.multi
    THEN IF Truthy(message.filename) THEN NotFound
         ELSE IF message.ctype \in allowed_mimetypes
              THEN [found |-> TRUE, text |-> message.content, location |-> message.loc]
         ELSE NotFound
    ELSE DecodedKids(message.kids)

html(message) == decoded(message, {"text/html"})

Text_text(message) == decoded(message, {"text/plain"})

(* mimetypes.guess_extension(mimetype) *)
guess_extension(mimetype) ==
    CASE mimetype = "text/html"  -> ".htm"
      [] mimetype = "text/xml"   -> ".xml"
      [] mimetype = "text/plain" -> ".ksh"
      [] mimetype = "image/png"  -> ".png"
      [] OTHER                   -> "None"

(***************************************************************************)
(* The parsed document (BeautifulSoup): a sequence of nodes.  A node is a  *)
(* character of text, an img element, or a table whose rows are sequences  *)
(* of cells (the direct child tags of a tr); a cell is a sequence of       *)
(* nodes, so tables nest.                                                  *)
(***************************************************************************)
RECURSIVE findAll_img(_)
RECURSIVE ImgsOfRows(_)
RECURSIVE ImgsOfCells(_)
findAll_img(nodes) ==
    IF nodes = <<>> THEN <<>>
    ELSE LET n == Head(nodes)
         IN  (IF n.k = "img" THEN <<n>>
              ELSE IF n.k = "table" THEN ImgsOfRows(n.rows)
              ELSE <<>>) \o findAll_img(Tail(nodes))

ImgsOfRows(rows) ==
    IF rows = <<>> THEN <<>> ELSE ImgsOfCells(Head(rows)) \o ImgsOfRows(Tail(rows))

ImgsOfCells(cells) ==
    IF cells = <<>> THEN <<>> ELSE findAll_img(Head(cells)) \o ImgsOfCells(Tail(cells))

(* soup.find('table'): the first table in document order; has_table tells *)
(* that it is not None                                                     *)
has_table(nodes) == \E n \in 1..Len(nodes) : nodes[n].k = "table"

find_tableMut(nodes) ==
    nodes[CHOOSE n \in 1..Len(nodes) :
             /\ nodes[n].k = "table"
             /\ \A m \in (n + 1)..Len(nodes) : nodes[m].k # "table"]

find_table(nodes) ==
    nodes[CHOOSE n \in 1..Len(nodes) :
             /\ nodes[n].k = "table"
             /\ \A m \in 1..(n - 1) : nodes[m].k # "table"]

(* table.findAll('tr'): every row inside the table, rows of nested tables  *)
(* included, in document order                                             *)
RECURSIVE findAll_tr(_)
RECURSIVE TrsOfCells(_)
RECURSIVE TrsOfNodes(_)
findAll_tr(rows) ==
    IF rows = <<>> THEN <<>>
    ELSE <<Head(rows)>> \o TrsOfCells(Head(rows)) \o findAll_tr(Tail(rows))

TrsOfCells(cells) ==
    IF cells = <<>> THEN <<>> ELSE TrsOfNodes(Head(cells)) \o TrsOfCells(Tail(cells))

TrsOfNodes(nodes) ==
    IF nodes = <<>> THEN <<>>
    ELSE (IF Head(nodes).k = "table" THEN findAll_tr(Head(nodes).rows) ELSE <<>>)
         \o TrsOfNodes(Tail(nodes))

(* tag.renderContents(): the markup as a sequence of characters, img tags  *)
(* kept whole with their attributes                                        *)
RECURSIVE renderContents(_)
RECURSIVE RenderRows(_)
RECURSIVE RenderCells(_)
renderContents(nodes) ==
    IF nodes = <<>> THEN <<>>
    ELSE LET n == Head(nodes)
         IN  (IF n.k = "table"
              THEN <<Ch("<table>")>> \o RenderRows(n.rows) \o <<Ch("</table>")>>
              ELSE <<n>>) \o renderContents(Tail(nodes))

RenderRows(rows) ==
    IF rows = <<>> THEN <<>>
    ELSE <<Ch("<tr>")>> \o RenderCells(Head(rows)) \o <<Ch("</tr>")>> \o RenderRows(Tail(rows))

RenderCells(cells) ==
    IF cells = <<>> THEN <<>>
    ELSE <<Ch("<td>")>> \o renderContents(Head(cells)) \o <<Ch("</td>")>>
         \o RenderCells(Tail(cells))

(* Parser._strip_newlines *)
NewlinesMut == {"\n"}

Newlines == {"\n", "\r"}

RECURSIVE _strip_newlines(_)
_strip_newlines(string) ==
    IF string = <<>> THEN <<>>
    ELSE (IF Head(string).k = "ch" /\ Head(string).c \in Newlines THEN <<>>
          ELSE <<Head(string)>>) \o _strip_newlines(Tail(string))

(* Parser._get_absolute_path_from_relative_path *)
_get_absolute_path_from_relative_path(root, relative_path) == path_join(root, relative_path)

(* self.date_hash: the capture time, "%Y-%m-%d-%H-%M-%S_", of this run *)
date_hash == <<"2026-10-30-01-00-00", "_">>

(* the name NamedTemporaryFile(suffix=filename) gives its n-th file *)
TmpName(n, suffix) == <<"/", "tmp", "/", "tmp", ToString(n)>> \o suffix

(* dict.get(key): the record, or NoRecord for None *)
NoRecord == [filename |-> None, path |-> None]

GetMut(map, key) == IF key \in DOMAIN map THEN map[key] ELSE [filename |-> <<>>, path |-> <<>>]

Get(map, key) == IF key \in DOMAIN map THEN map[key] ELSE NoRecord

Put(map, key, value) == [q \in DOMAIN map \cup {key} |-> IF q = key THEN value ELSE map[q]]

EmptyMap == [q \in {} |-> NoRecord]

(***************************************************************************)
(* Inputs: the archives and the documents of their root HTML part          *)
(***************************************************************************)
MaxParts == 3      \* parts directly under the root of an archive

RootLoc  == <<"f", ":", "/", "/", "/", "d", "/", "p">>
XmlLoc   == <<"f", ":", "/", "/", "/", "d", "/", "x">>
PlainLoc == <<"f", ":", "/", "/", "/", "d", "/", "c">>
MixedLoc == <<"f", ":", "/", "/", "/", "d", "/", "k">>
LocA     == <<"f", ":", "/", "/", "/", "d", "/", "a", "/", "i">>
LocA2    == <<"f", ":", "/", "/", "/", "d", "/", "a", "/", ".", "/", "i", "?", "x">>
LocB     == <<"f", ":", "/", "/", "/", "d", "/", "b", "/", "i">>

Png(n) == <<Ch("png"), Ch(ToString(n))>>

Cell(c) == <<Ch(c)>>

(* one table of two rows and two columns, no image *)
DocPlainTable ==
    <<Ch("\n"),
      Table(<< << <<Ch("q"), Ch("\n"), Ch("1")>>, <<Ch("a"), Ch("\r"), Ch("\n")>> >>,
               << <<Ch("\r"), Ch("q")>>, <<Ch("\t"), Ch("a")>> >> >>)>>

(* one image referenced through two relative paths, and a third cell *)
DocTwoRefs ==
    <<Table(<< << <<Img(<<"a", "/", "i">>)>>,
                  <<Img(<<".", "/", "a", "/", "i">>), Ch("\n")>>,
                  Cell("x") >> >>)>>

(* an image outside the table, a nested table, a second table *)
DocNested ==
    <<Img(<<"b", "/", "i">>),
      Table(<< << Cell("q"),
                  <<Table(<< << Cell("n"),
                                <<Img(<<"a", "/", ".", ".", "/", "a", "/", "i">>)>> >> >>)>> >>,
               << Cell("r"), Cell("s") >> >>),
      Table(<< << Cell("z"), Cell("z") >> >>)>>

(* a second row with a single cell *)
DocShortRow == <<Table(<< << Cell("q"), Cell("a") >>, << Cell("q") >> >>)>>

(* an image whose file is not in the archive *)
DocMissingImg == <<Table(<< << <<Img(<<"a", "/", "j">>)>>, Cell("a") >> >>)>>

(* no table *)
DocNoTable == <<Ch("x"), Img(<<"/", "d", "/", "a", "/", "i">>)>>

Docs == {DocPlainTable, DocTwoRefs, DocNested, DocShortRow, DocMissingImg, DocNoTable}

(* the kinds of part of an archive read from a file *)
Kinds == {"html", "xml", "imgA1", "imgA2", "imgB", "alt", "altnest", "related"}

Alternative == "multipart/alternative"

(* the part of a kind, with the identifier id, in an archive of document doc *)
Part(kind, id, doc) ==
    CASE kind = "html"    -> Leaf(id, "text/html", RootLoc, doc)
      [] kind = "xml"     -> Leaf(id, "text/xml", XmlLoc, <<Ch("xml")>>)
      [] kind = "imgA1"   -> Leaf(id, "image/png", LocA, Png(1))
      [] kind = "imgA2"   -> Leaf(id, "image/png", LocA2, Png(2))
      [] kind = "imgB"    -> Leaf(id, "image/png", LocB, Png(3))
      [] kind = "bad"     -> [Leaf(id, "image/png", LocB, Png(4)) EXCEPT !.bad = TRUE]
      [] kind = "nameOdd" ->
            NamedLeaf(id, "image/png", LocB, Png(11), <<EWordOdd, " ", "a">>)
      [] kind = "nameMix" ->
            NamedLeaf(id, "image/png", LocA2, Png(12), <<"a", " ", EWordBad>>)
      [] kind = "alt"     ->
            Multi(id, Alternative, None,
                  <<Leaf(10 * id + 1, "text/plain", PlainLoc, <<Ch("x")>>),
                    Leaf(10 * id + 2, "text/html", RootLoc, doc),
                    NamedLeaf(10 * id + 3, "image/png", LocA, Png(10), <<EWordBad>>)>>)
      [] kind = "altnest" ->
            Multi(id, Alternative, None,
                  <<Multi(10 * id + 1, Alternative, None,
                          <<Leaf(100 * id + 11, "image/png", LocA, Png(5))>>),
                    Multi(10 * id + 2, "multipart/mixed", MixedLoc,
                          <<Leaf(100 * id + 21, "image/png", LocB, Png(6))>>),
                    Leaf(10 * id + 3, Alternative, LocA, Png(9))>>)
      [] kind = "related" ->
            Multi(id, "multipart/related", None,
                  <<Leaf(10 * id + 1, "image/png", LocA, Png(7)),
                    Multi(10 * id + 2, Alternative, None,
                          <<Leaf(100 * id + 21, "image/png", LocB, Png(8))>>)>>)

KindSeqs == UNION {[1..n -> Kinds] : n \in 0..MaxParts}

Archive(kinds, doc) ==
    Multi(0, "multipart/related", None, [n \in 1..Len(kinds) |-> Part(kinds[n], n, doc)])

Archives == {Archive(kinds, doc) : kinds \in KindSeqs, doc \in Docs}

(***************************************************************************)
(* State                                                                   *)
(***************************************************************************)
VARIABLES
    message,      \* Parser.message: the archive
    pc,           \* where the Parser is: "new", "files", "imgs", "rows", "done", "error";
                  \*   where a caller of Attachment.extract is: "extract", "exhausted"
    err,          \* the exception that ended the Parser, "none" if none
    root,         \* Parser.root
    soup,         \* Parser.soup
    file_map,     \* Parser.file_map: canonical path -> [filename, path]
    tmpfiles,     \* the temporary files written: path -> content
    att_i,        \* how many items the attachment generator has yielded
    yielded,      \* those items, in order
    output,       \* what run() returned, None before
    d_in,         \* the argument of a call of Attachment.decode_filename
    d_out,        \* its outcome, Pending before the call
    headers,      \* MetaData.message: the To, From, Reply-To, Cc, Bcc values
    m_pc,         \* where set_message is: "idle", "loop", "raised", "set";
                  \*   "cleared" after clear()
    m_hdr,        \* the header _address works on, 1..5
    header_value, \* the text _address has still to consume
    m_name,       \* the name and
    m_address,    \*   the address last parsed
    result,       \* the dict result of _address
    names,        \* MetaData.names
    returned,     \* header -> the list _address returned for it, as set_message
                  \*   stored it in to, sender, reply_to, cc, bcc (sender and
                  \*   reply_to keep its first element); no entry is None
    m_calls,      \* how many calls of set_message have begun
    i_pc,         \* where importMHT is: "idle", "ask", "parse", "move", "import",
                  \*   "remove", "returned", "raised"
    i_err,        \* the exception that left importMHT, "none" if none
    container,    \* temp_dir: "none" before mkdtemp, then "exists" or "removed"
    inside,       \* the names of the files inside temp_dir
    to_move,      \* the keys of file_map whose asset is still to be moved
    media         \* the collection.media folder: filename -> content

parser_vars == <<message, pc, err, root, soup, file_map, tmpfiles, att_i, yielded, output>>

decoder_vars == <<d_in, d_out>>

meta_vars == <<headers, m_pc, m_hdr, header_value, m_name, m_address, result, names,
               returned, m_calls>>

import_vars == <<i_pc, i_err, container, inside, to_move, media>>

vars == <<parser_vars, decoder_vars, meta_vars, import_vars>>

(***************************************************************************)
(* Parser                                                                  *)
(***************************************************************************)
Fail(exception) ==
    /\ pc' = "error"
    /\ err' = exception

(* Parser.__init__ *)
ParserNew ==
    /\ pc = "new"
    /\ LET found == html(message)
       IN  IF ~found.found
           THEN Fail("TypeError") /\ UNCHANGED <<root, soup>>
           ELSE IF found.location = None
                THEN Fail("AttributeError") /\ UNCHANGED <<root, soup>>
           ELSE /\ root' = dirname(urlparse_path(found.location))
                /\ soup' = found.text
                /\ pc' = "files"
                /\ err' = "none"
    /\ file_map' = EmptyMap
    /\ UNCHANGED <<message, tmpfiles, att_i, yielded, output>>

StructuralExtensions == {".htm", ".xml"}

(* the canonical path of an attachment *)
CanonicalPath(url) == normpath(urlparse_path(url))

(* if self.file_map.get(path): a similar file is already saved *)
AlreadySavedMut(map, path) == FALSE

AlreadySaved(map, path) == Get(map, path) # NoRecord

(* Parser.run, one turn of the loop over Attachment.extract(message, False) *)
FileStep ==
    /\ pc = "files"
    /\ att_i < Len(extract(message, FALSE))
    /\ LET item == extract(message, FALSE)[att_i + 1]
           path == CanonicalPath(item.part.loc)
           filename == date_hash \o basename(path)
           tmp == TmpName(Cardinality(DOMAIN tmpfiles) + 1, filename)
       IN  /\ att_i' = att_i + 1
           /\ yielded' = Append(yielded, item)
           /\ IF item.exc # "none"
              THEN Fail(item.exc) /\ UNCHANGED <<file_map, tmpfiles>>
              ELSE IF guess_extension(item.mimetype) \in StructuralExtensions
                   THEN UNCHANGED <<pc, err, file_map, tmpfiles>>
              ELSE IF item.part.loc = None
                   THEN Fail("AttributeError") /\ UNCHANGED <<file_map, tmpfiles>>
              ELSE IF AlreadySaved(file_map, path)
                   THEN UNCHANGED <<pc, err, file_map, tmpfiles>>
              ELSE /\ tmpfiles' = Put(tmpfiles, tmp, item.content)
                   /\ file_map' = Put(file_map, path, [filename |-> filename, path |-> tmp])
                   /\ UNCHANGED <<pc, err>>
    /\ UNCHANGED <<message, root, soup, output>>

(* the path an img src is looked up at *)
Resolved(src) == normpath(_get_absolute_path_from_relative_path(root, src))

(* new_src = self.file_map.get(path).get('filename') *)
NewSrcMut(map, path) == Get(map, path).path

NewSrc(map, path) == Get(map, path).filename

Rewritten(img) ==
    [img EXCEPT !.src = NewSrc(file_map, Resolved(img.src)), !.width = "auto", !.height = "auto"]

RECURSIVE RewriteNodes(_)
RECURSIVE RewriteRows(_)
RECURSIVE RewriteCells(_)
RewriteNodes(nodes) ==
    IF nodes = <<>> THEN <<>>
    ELSE LET n == Head(nodes)
         IN  <<IF n.k = "img" THEN Rewritten(n)
               ELSE IF n.k = "table" THEN [n EXCEPT !.rows = RewriteRows(n.rows)]
               ELSE n>> \o RewriteNodes(Tail(nodes))

RewriteRows(rows) ==
    IF rows = <<>> THEN <<>> ELSE <<RewriteCells(Head(rows))>> \o RewriteRows(Tail(rows))

RewriteCells(cells) ==
    IF cells = <<>> THEN <<>> ELSE <<RewriteNodes(Head(cells))>> \o RewriteCells(Tail(cells))

(* Parser.run, the loop over soup.findAll('img'), entered when the         *)
(* attachment generator is exhausted                                       *)
(* the document after the first k turns of the loop over the img elements *)
RECURSIVE RewriteFirst(_, _)
RECURSIVE RewriteFirstRows(_, _)
RECURSIVE RewriteFirstCells(_, _)
RewriteFirst(nodes, k) ==
    IF nodes = <<>> \/ k <= 0 THEN nodes
    ELSE LET n == Head(nodes)
         IN  <<IF n.k = "img" THEN Rewritten(n)
               ELSE IF n.k = "table" THEN [n EXCEPT !.rows = RewriteFirstRows(n.rows, k)]
               ELSE n>> \o RewriteFirst(Tail(nodes), k - Len(findAll_img(<<n>>)))

RewriteFirstRows(rows, k) ==
    IF rows = <<>> \/ k <= 0 THEN rows
    ELSE <<RewriteFirstCells(Head(rows), k)>>
         \o RewriteFirstRows(Tail(rows), k - Len(ImgsOfCells(Head(rows))))

RewriteFirstCells(cells, k) ==
    IF cells = <<>> \/ k <= 0 THEN cells
    ELSE <<RewriteFirst(Head(cells), k)>>
         \o RewriteFirstCells(Tail(cells), k - Len(findAll_img(Head(cells))))

(* the img elements whose turn raises: no src, or no record at its path *)
Misses(imgs) ==
    {n \in 1..Len(imgs) :
        imgs[n].src = None \/ Get(file_map, Resolved(imgs[n].src)) = NoRecord}

FirstMiss(imgs) == CHOOSE n \in Misses(imgs) : \A m \in Misses(imgs) : n <= m

ImgPhaseMut ==
    /\ pc = "files"
    /\ att_i = Len(extract(message, FALSE))
    /\ LET imgs == findAll_img(soup)
       IN  /\ IF Misses(imgs) # {}
              THEN Fail("AttributeError") /\ soup' = RewriteFirst(soup, FirstMiss(imgs) - 1)
              ELSE /\ soup' = RewriteNodes(soup)
                   /\ pc' = "rows"
                   /\ UNCHANGED err
           /\ file_map' = [p \in DOMAIN file_map \ {Resolved(imgs[n].src) : n \in 1..Len(imgs)}
                              |-> file_map[p]]
    /\ UNCHANGED <<message, root, tmpfiles, att_i, yielded, output>>

ImgPhase ==
    /\ pc = "files"
    /\ att_i = Len(extract(message, FALSE))
    /\ LET imgs == findAll_img(soup)
       IN  IF Misses(imgs) # {}
           THEN Fail("AttributeError") /\ soup' = RewriteFirst(soup, FirstMiss(imgs) - 1)
           ELSE /\ soup' = RewriteNodes(soup)
                /\ pc' = "rows"
                /\ UNCHANGED err
    /\ UNCHANGED <<message, root, file_map, tmpfiles, att_i, yielded, output>>

Tab == Ch("\t")

Newline == Ch("\n")

(* tds = row.findAll(recursive=False, limit=2) *)
tdsMut(row) == SubSeq(row \o << <<>>, <<>> >>, 1, 2)

tds(row) == SubSeq(row, 1, Min2(2, Len(row)))

(* '%s\t%s\n' % (question, answer) *)
Line(row) ==
    _strip_newlines(renderContents(tds(row)[1])) \o <<Tab>>
        \o _strip_newlines(renderContents(tds(row)[2])) \o <<Newline>>

RECURSIVE Lines(_)
Lines(trs) == IF trs = <<>> THEN <<>> ELSE Line(Head(trs)) \o Lines(Tail(trs))

(* Parser.run, the loop over the rows of the first table, and the return *)
RowsPhase ==
    /\ pc = "rows"
    /\ IF ~has_table(soup)
       THEN Fail("AttributeError") /\ UNCHANGED output
       ELSE LET trs == findAll_tr(find_table(soup).rows)
            IN  IF \E n \in 1..Len(trs) : Len(tds(trs[n])) < 2
                THEN Fail("IndexError") /\ UNCHANGED output
                ELSE /\ output' = Lines(trs)
                     /\ pc' = "done"
                     /\ UNCHANGED err
    /\ UNCHANGED <<message, root, soup, file_map, tmpfiles, att_i, yielded>>

ParserInit ==
    /\ message \in Archives
    /\ pc = "new"
    /\ err = "none"
    /\ root = <<>>
    /\ soup = <<>>
    /\ file_map = EmptyMap
    /\ tmpfiles = [q \in {} |-> <<>>]
    /\ att_i = 0
    /\ yielded = <<>>
    /\ output = None

DecoderIdle ==
    /\ d_in = None
    /\ d_out = [exc |-> "none", val |-> None]

MetaIdle ==
    /\ headers = [n \in 1..5 |-> None]
    /\ m_pc = "idle"
    /\ m_hdr = 1
    /\ header_value = <<>>
    /\ m_name = <<>>
    /\ m_address = <<>>
    /\ result = [q \in {} |-> None]
    /\ names = [q \in {} |-> None]
    /\ returned = [q \in {} |-> <<>>]
    /\ m_calls = 1

ImportIdle ==
    /\ i_pc = "idle"
    /\ i_err = "none"
    /\ container = "none"
    /\ inside = {}
    /\ to_move = {}
    /\ media = [q \in {} |-> <<>>]

Init == ParserInit /\ DecoderIdle /\ MetaIdle /\ ImportIdle

Next ==
    \/ ParserNew /\ UNCHANGED <<decoder_vars, meta_vars, import_vars>>
    \/ FileStep /\ UNCHANGED <<decoder_vars, meta_vars, import_vars>>
    \/ ImgPhase /\ UNCHANGED <<decoder_vars, meta_vars, import_vars>>
    \/ RowsPhase /\ UNCHANGED <<decoder_vars, meta_vars, import_vars>>

Spec == Init /\ [][Next]_vars

(***************************************************************************)
(* Attachment.decode_filename, called on its own                           *)
(***************************************************************************)
MaxNameLen == 4    \* tokens of a filename header

NameTokens == {"a", " ", "e9"} \cup EWords

(* see the note on encoded words above decode_header *)
WellDelimited(h) ==
    \A n \in 1..Len(h) : \A m \in (n + 1)..Len(h) :
        (h[n] \in EWords /\ ~IsEncodedWord(h, n)) => ~IsEncodedWord(h, m)

Filenames ==
    {None} \cup {h \in UNION {[1..n -> NameTokens] : n \in 0..MaxNameLen} : WellDelimited(h)}

Pending == [exc |-> "pending", val |-> None]

DecodeFilename ==
    /\ d_out = Pending
    /\ d_out' = decode_filename(d_in)
    /\ UNCHANGED <<d_in, parser_vars, meta_vars, import_vars>>

DecoderInit ==
    /\ d_in \in Filenames
    /\ d_out = Pending

ParserIdle ==
    /\ message = Archive(<<>>, DocNoTable)
    /\ pc = "idle"
    /\ err = "none"
    /\ root = <<>>
    /\ soup = <<>>
    /\ file_map = EmptyMap
    /\ tmpfiles = [q \in {} |-> <<>>]
    /\ att_i = 0
    /\ yielded = <<>>
    /\ output = None

InitDecode == ParserIdle /\ DecoderInit /\ MetaIdle /\ ImportIdle

NextDecode == DecodeFilename

SpecDecode == InitDecode /\ [][NextDecode]_vars

(***************************************************************************)
(* Attachment.extract(message, False) called on a message built in memory, *)
(* whose payloads may be unicode strings: its caller takes the items of    *)
(* the generator one by one                                                *)
(***************************************************************************)
BuiltKinds == Kinds \cup {"bad", "nameOdd", "nameMix"}

BuiltMessages ==
    {Archive(kinds, DocNoTable) : kinds \in UNION {[1..n -> BuiltKinds] : n \in 0..MaxParts}}

(* next() on the generator gives one more item, or the exception that the  *)
(* generator does not catch                                                *)
ExtractNext ==
    /\ pc = "extract"
    /\ att_i < Len(extract(message, FALSE))
    /\ LET item == extract(message, FALSE)[att_i + 1]
       IN  /\ att_i' = att_i + 1
           /\ yielded' = Append(yielded, item)
           /\ IF item.exc # "none" THEN Fail(item.exc) ELSE UNCHANGED <<pc, err>>
    /\ UNCHANGED <<message, root, soup, file_map, tmpfiles, output>>
    /\ UNCHANGED <<decoder_vars, meta_vars, import_vars>>

(* next() on the exhausted generator: StopIteration ends the caller's loop *)
ExtractStop ==
    /\ pc = "extract"
    /\ att_i = Len(extract(message, FALSE))
    /\ pc' = "exhausted"
    /\ UNCHANGED <<message, err, root, soup, file_map, tmpfiles, att_i, yielded, output>>
    /\ UNCHANGED <<decoder_vars, meta_vars, import_vars>>

ExtractInit ==
    /\ message \in BuiltMessages
    /\ pc = "extract"
    /\ err = "none"
    /\ root = <<>>
    /\ soup = <<>>
    /\ file_map = EmptyMap
    /\ tmpfiles = [q \in {} |-> <<>>]
    /\ att_i = 0
    /\ yielded = <<>>
    /\ output = None

InitExtract == ExtractInit /\ DecoderIdle /\ MetaIdle /\ ImportIdle

NextExtract == ExtractNext \/ ExtractStop

SpecExtract == InitExtract /\ [][NextExtract]_vars

(***************************************************************************)
(* MetaData.set_message: the five calls of _address, each one a first      *)
(* parse and then one step per turn of its while loop                      *)
(***************************************************************************)
MaxHdrLen == 4     \* tokens of a generated address header

NHeaders == 5      \* To, From, Reply-To, Cc, Bcc

AddrTokens == {"a", "b", "@", "<", ">", ",", " ", EWordOk}

GenHeaders == {h \in UNION {[1..n -> AddrTokens] : n \in 0..MaxHdrLen} : WellDelimited(h)}

(* "=?utf-8?b?Sg==?= <b@a>, a@b" *)
HdrTwo == <<EWordOk, " ", "<", "b", "@", "a", ">", ",", " ", "a", "@", "b">>

(* "=?utf-8?b?Sg==?= <a@b>, a@b" *)
HdrSame == <<EWordOk, " ", "<", "a", "@", "b", ">", ",", " ", "a", "@", "b">>

(* "a@b" *)
HdrBare == <<"a", "@", "b">>

(* "b <a@b>" *)
HdrNamed == <<"b", " ", "<", "a", "@", "b", ">">>

PickedHeaders == {None, HdrTwo, HdrSame, HdrBare, HdrNamed}

Messages ==
    {[n \in 1..NHeaders |-> IF n = 1 THEN h ELSE None] : h \in GenHeaders}
        \cup [1..NHeaders -> PickedHeaders]

NameOrNone(name) == IF name = <<>> THEN None ELSE name

(* result[address] = name or None *)
Recorded(res, address, name) == Put(res, address, NameOrNone(name))

(* dict.update *)
update(old, new) ==
    [q \in DOMAIN old \cup DOMAIN new |-> IF q \in DOMAIN new THEN new[q] ELSE old[q]]

(* sorted(addresses) *)
RECURSIVE Reversed(_)
Reversed(list) == IF list = <<>> THEN <<>> ELSE Append(Reversed(Tail(list)), Head(list))

AddressListMut(res) == Reversed(sorted({encode(a) : a \in DOMAIN res}))

AddressList(res) == sorted({encode(a) : a \in DOMAIN res})

(* the end of _address: names.update(result), the sorted list returned *)
Return(res) ==
    /\ names' = update(names, res)
    /\ returned' = Put(returned, m_hdr, AddressList(res))
    /\ result' = res
    /\ m_hdr' = m_hdr + 1
    /\ m_pc' = IF m_hdr = NHeaders THEN "set" ELSE "idle"

(* _address up to the test of its while loop *)
AddressBegin ==
    /\ m_pc = "idle"
    /\ m_hdr <= NHeaders
    /\ LET value == headers[m_hdr]
           text  == JoinStrip(DecodedPieces(value))
           chars == Chars(text.val)
           first == parseaddr(chars)
       IN  IF value = None \/ value = <<>>
           THEN /\ returned' = Put(returned, m_hdr, <<>>)
                /\ result' = [q \in {} |-> None]
                /\ m_hdr' = m_hdr + 1
                /\ m_pc' = IF m_hdr = NHeaders THEN "set" ELSE "idle"
                /\ UNCHANGED <<header_value, m_name, m_address, names>>
           ELSE IF text.exc # "none"
                THEN /\ m_pc' = "raised"
                     /\ UNCHANGED <<header_value, m_name, m_address, result, names,
                                    returned, m_hdr>>
           ELSE /\ header_value' = chars
                /\ m_name' = first.name
                /\ m_address' = first.address
                /\ IF first.address = <<>>
                   THEN Return([q \in {} |-> None])
                   ELSE /\ result' = [q \in {} |-> None]
                        /\ m_pc' = "loop"
                        /\ UNCHANGED <<names, returned, m_hdr>>
    /\ UNCHANGED <<headers, m_calls, parser_vars, decoder_vars, import_vars>>

(* the cursor after the address, its '>' and its ',' ; -1 for a break *)
Cursor(value, address) ==
    LET i1 == find_sub(value, address) + Len(address)
        i2 == IF i1 < Len(value) /\ At(value, i1) = ">" THEN i1 + 1 ELSE i1
        i3 == IF i2 < Len(value) /\ At(value, i2) = "," THEN i2 + 1 ELSE i2
    IN  IF i1 >= Len(value) \/ i2 >= Len(value) THEN -1 ELSE i3

(* one turn of the while loop of _address *)
AddressLoop ==
    /\ m_pc = "loop"
    /\ LET res   == Recorded(result, m_address, m_name)
           index == Cursor(header_value, m_address)
           rest  == strip(From(header_value, index))
           next  == parseaddr(rest)
       IN  IF index = -1
           THEN Return(res) /\ UNCHANGED <<header_value, m_name, m_address>>
           ELSE /\ header_value' = rest
                /\ m_name' = next.name
                /\ m_address' = next.address
                /\ IF next.address = <<>>
                   THEN Return(res)
                   ELSE /\ result' = res
                        /\ UNCHANGED <<names, returned, m_hdr, m_pc>>
    /\ UNCHANGED <<headers, m_calls, parser_vars, decoder_vars, import_vars>>

(* no call of _address is active: its local variables are gone *)
NoLocals ==
    /\ header_value' = <<>>
    /\ m_name' = <<>>
    /\ m_address' = <<>>
    /\ result' = [q \in {} |-> None]

MaxCalls == 2      \* calls of set_message on one MetaData

(* the messages of the later calls *)
LaterMessages ==
    {[n \in 1..NHeaders |-> IF n = 1 THEN h ELSE None] : h \in {HdrBare, HdrNamed}}

(* MetaData.clear(): names, the message and the extracted values are reset *)
clear ==
    /\ m_pc = "set"
    /\ m_pc' = "cleared"
    /\ headers' = [n \in 1..NHeaders |-> None]
    /\ names' = [q \in {} |-> None]
    /\ returned' = [q \in {} |-> <<>>]
    /\ m_hdr' = 1
    /\ NoLocals
    /\ UNCHANGED <<m_calls, parser_vars, decoder_vars, import_vars>>

(* MetaData.set_message(message) called again, up to its first _address:   *)
(* names and the values extracted before stay                              *)
set_message ==
    /\ m_pc \in {"set", "cleared"}
    /\ m_calls < MaxCalls
    /\ m_calls' = m_calls + 1
    /\ headers' \in LaterMessages
    /\ m_pc' = "idle"
    /\ m_hdr' = 1
    /\ NoLocals
    /\ UNCHANGED <<names, returned, parser_vars, decoder_vars, import_vars>>

MetaInit ==
    /\ headers \in Messages
    /\ m_pc = "idle"
    /\ m_hdr = 1
    /\ header_value = <<>>
    /\ m_name = <<>>
    /\ m_address = <<>>
    /\ result = [q \in {} |-> None]
    /\ names = [q \in {} |-> None]
    /\ returned = [q \in {} |-> <<>>]
    /\ m_calls = 1

InitMeta == ParserIdle /\ DecoderIdle /\ MetaInit /\ ImportIdle

NextMeta == AddressBegin \/ AddressLoop \/ clear \/ set_message

SpecMeta == InitMeta /\ [][NextMeta]_vars

(***************************************************************************)
(* importMHT (__init__.py): the file dialog, Parser(file_path).run(), then *)
(* inside try: the container directory with import.html, the move of every *)
(* asset to collection.media, the import, os.remove(path); and             *)
(* finally: os.rmdir(temp_dir).  A call of the operating system or of the  *)
(* importer either succeeds or raises.                                     *)
(***************************************************************************)
ImportHtml == "import.html"

(* finally: os.rmdir(temp_dir), entered with the pending exception and the *)
(* files then inside the container; rmdir raises OSError on a directory    *)
(* that is not empty, and that error replaces the pending exception        *)
Finally(exception, files) ==
    /\ inside' = files
    /\ IF files # {}
       THEN /\ container' = "exists"
            /\ i_err' = "OSError"
            /\ i_pc' = "raised"
       ELSE /\ container' = "removed"
            /\ i_err' = exception
            /\ i_pc' = IF exception = "none" THEN "returned" ELSE "raised"

(* file_path = getFile(...); if not file_path: return *)
GetFile ==
    /\ i_pc = "ask"
    /\ \E chosen \in BOOLEAN : i_pc' = IF chosen THEN "parse" ELSE "returned"
    /\ UNCHANGED <<i_err, container, inside, to_move, media, parser_vars>>

(* an exception of Parser(file_path) or of parser.run() leaves importMHT   *)
(* before the try statement                                                *)
ParserRaised ==
    /\ i_pc = "parse"
    /\ pc = "error"
    /\ i_pc' = "raised"
    /\ i_err' = err
    /\ UNCHANGED <<container, inside, to_move, media, parser_vars>>

(* temp_dir = mkdtemp(); open(path, 'w+'); html.write(output).  When       *)
(* mkdtemp raises, temp_dir is unbound in the finally clause.              *)
MakeContainer ==
    /\ i_pc = "parse"
    /\ pc = "done"
    /\ \E outcome \in {"ok", "mkdtemp raises", "open raises"} :
          CASE outcome = "ok" ->
                  /\ container' = "exists"
                  /\ inside' = {ImportHtml}
                  /\ to_move' = DOMAIN file_map
                  /\ i_pc' = "move"
                  /\ UNCHANGED i_err
            [] outcome = "mkdtemp raises" ->
                  /\ i_pc' = "raised"
                  /\ i_err' = "UnboundLocalError"
                  /\ UNCHANGED <<container, inside, to_move>>
            [] outcome = "open raises" ->
                  /\ Finally("IOError", {})
                  /\ UNCHANGED to_move
    /\ UNCHANGED <<media, parser_vars>>

Without(map, key) == [q \in DOMAIN map \ {key} |-> map[q]]

(* one turn of the loop over parser.file_map.values(), whose order is that *)
(* of the dict: shutil.move(temp_path, new_path)                           *)
MoveAsset ==
    /\ i_pc = "move"
    /\ \E p \in to_move : \E moved \in BOOLEAN :
          LET meta == file_map[p]
          IN  IF moved
              THEN /\ media' = Put(media, meta.filename, tmpfiles[meta.path])
                   /\ tmpfiles' = Without(tmpfiles, meta.path)
                   /\ to_move' = to_move \ {p}
                   /\ UNCHANGED <<i_pc, i_err, container, inside>>
              ELSE /\ Finally("IOError", inside)
                   /\ UNCHANGED <<media, tmpfiles, to_move>>
    /\ UNCHANGED <<message, pc, err, root, soup, file_map, att_i, yielded, output>>

(* TextImporter(mw.col, path) ... MHTImportDialog(mw, ti) *)
TextImport ==
    /\ i_pc = "move"
    /\ to_move = {}
    /\ \E imported \in BOOLEAN :
          IF imported
          THEN i_pc' = "remove" /\ UNCHANGED <<i_err, container, inside>>
          ELSE Finally("Exception", inside)
    /\ UNCHANGED <<to_move, media, parser_vars>>

(* os.remove(path), and the finally clause on the way out *)
RemoveFile ==
    /\ i_pc = "remove"
    /\ \E removed \in BOOLEAN :
          IF removed THEN Finally("none", inside \ {ImportHtml})
          ELSE Finally("OSError", inside)
    /\ UNCHANGED <<to_move, media, parser_vars>>

ImportInit ==
    /\ i_pc = "ask"
    /\ i_err = "none"
    /\ container = "none"
    /\ inside = {}
    /\ to_move = {}
    /\ media = [q \in {} |-> <<>>]

InitImport == ParserInit /\ DecoderIdle /\ MetaIdle /\ ImportInit

NextImport ==
    \/ GetFile /\ UNCHANGED <<decoder_vars, meta_vars>>
    \/ i_pc = "parse" /\ ParserNew /\ UNCHANGED <<decoder_vars, meta_vars, import_vars>>
    \/ i_pc = "parse" /\ FileStep /\ UNCHANGED <<decoder_vars, meta_vars, import_vars>>
    \/ i_pc = "parse" /\ ImgPhase /\ UNCHANGED <<decoder_vars, meta_vars, import_vars>>
    \/ i_pc = "parse" /\ RowsPhase /\ UNCHANGED <<decoder_vars, meta_vars, import_vars>>
    \/ ParserRaised /\ UNCHANGED <<decoder_vars, meta_vars>>
    \/ MakeContainer /\ UNCHANGED <<decoder_vars, meta_vars>>
    \/ MoveAsset /\ UNCHANGED <<decoder_vars, meta_vars>>
    \/ TextImport /\ UNCHANGED <<decoder_vars, meta_vars>>
    \/ RemoveFile /\ UNCHANGED <<decoder_vars, meta_vars>>

SpecImport == InitImport /\ [][NextImport]_vars

(***************************************************************************)
(* Properties of Parser.run (specification Spec)                           *)
(***************************************************************************)
Returned == pc = "done"

NonStructural(item) == guess_extension(item.mimetype) \notin {".htm", ".xml"}

PathOf(item) == normpath(urlparse_path(item.part.loc))

(* the positions, in the attachment sequence, of the non-structural        *)
(* attachments at a canonical path                                         *)
At_Path(p) == {n \in 1..Len(yielded) : NonStructural(yielded[n]) /\ PathOf(yielded[n]) = p}

FirstAt(p) == CHOOSE n \in At_Path(p) : \A m \in At_Path(p) : n <= m

(* C1: after run(), every canonical path of a non-structural attachment    *)
(* has exactly one record in file_map, and the temporary file of that      *)
(* record holds the content of the first attachment at that path: later    *)
(* attachments at the path are dropped.                                    *)
C1_FirstAttachmentWins ==
    Returned =>
        /\ DOMAIN file_map =
              {PathOf(yielded[n]) : n \in {m \in 1..Len(yielded) : NonStructural(yielded[m])}}
        /\ \A p \in DOMAIN file_map :
              /\ file_map[p].path \in DOMAIN tmpfiles
              /\ tmpfiles[file_map[p].path] = yielded[FirstAt(p)].content
        /\ \A p, q \in DOMAIN file_map : p # q => file_map[p].path # file_map[q].path
        /\ Cardinality(DOMAIN tmpfiles) = Cardinality(DOMAIN file_map)

(* two attachments of different content share a canonical path, and a run  *)
(* over them returned                                                      *)
C1_Witness ==
    /\ Returned
    /\ \E n, m \in 1..Len(yielded) :
          /\ n < m
          /\ NonStructural(yielded[n]) /\ NonStructural(yielded[m])
          /\ PathOf(yielded[n]) = PathOf(yielded[m])
          /\ yielded[n].part.loc # yielded[m].part.loc
          /\ yielded[n].content # yielded[m].content

(* C2: within one run(), two records of file_map stored under distinct     *)
(* canonical paths have distinct output filenames.                         *)
C2_DistinctFilenames ==
    Returned =>
        \A p, q \in DOMAIN file_map : p # q => file_map[p].filename # file_map[q].filename

(* the parts of a tree, the root excluded *)
RECURSIVE Descendants(_)
Descendants(part) ==
    {part.kids[n] : n \in 1..Len(part.kids)}
        \cup UNION {Descendants(part.kids[n]) : n \in 1..Len(part.kids)}

Flattened(part) == part.multi /\ part.ctype = "multipart/alternative"

(* the containers whose children the walk visits: the message and, below   *)
(* a visited container, its multipart/alternative children                 *)
RECURSIVE Walked(_)
Walked(part) ==
    IF ~part.multi THEN {}
    ELSE {part} \cup UNION {Walked(part.kids[n]) :
                               n \in {m \in 1..Len(part.kids) : Flattened(part.kids[m])}}

Children(part) == {part.kids[n] : n \in 1..Len(part.kids)}

YieldedParts == {yielded[n].part : n \in 1..Len(yielded)}

Exhausted == pc \in {"rows", "done"}

(* C3 as stated: no attachment yielded by Attachment.extract (filename      *)
(* filter disabled) has a multipart originating part.                      *)
C3_NoMultipartYielded == \A n \in 1..Len(yielded) : ~yielded[n].part.multi

(* C3: a multipart/alternative child that has sub-parts is replaced by the *)
(* attachments extracted from it and is never an attachment itself; a      *)
(* multipart child of another subtype is never flattened (no part below it *)
(* is yielded) and is yielded as one attachment itself.                    *)
C3_OnlyAlternativeFlattened ==
    /\ \A part \in YieldedParts :
          /\ ~Flattened(part)
          /\ \E c \in Walked(message) : part \in Children(c)
          /\ part.multi => Descendants(part) \cap YieldedParts = {}
    /\ Exhausted =>
          \A c \in Walked(message) : \A part \in Children(c) :
              (~Flattened(part) /\ ~part.bad) => part \in YieldedParts

(* the walk is over; it met a multipart/alternative inside another one,    *)
(* and a multipart/mixed child, which it yielded                           *)
C3_Witness ==
    /\ Exhausted
    /\ \E c \in Walked(message) : c.id # 0 /\ \E d \in Children(c) : Flattened(d)
    /\ \E part \in YieldedParts : part.multi /\ part.ctype = "multipart/mixed"

(* the img elements of the root HTML as the archive has them *)
OriginalImgs == findAll_img(html(message).text)

RootDir == dirname(urlparse_path(html(message).location))

PathOfSrc(src) == normpath(path_join(RootDir, src))

RECURSIVE ImgTokens(_)
ImgTokens(tokens) ==
    IF tokens = <<>> THEN <<>>
    ELSE (IF Head(tokens).k = "img" THEN <<Head(tokens)>> ELSE <<>>) \o ImgTokens(Tail(tokens))

(* C4: after run(), every img src equals the filename of the file_map      *)
(* record at its resolved canonical path (the src joined to the directory  *)
(* of the root Content-Location and normalized), in the document and in    *)
(* the returned text; so two different src values of one canonical path    *)
(* are rewritten to the same filename of the single record.                *)
C4_SrcIsRecordFilename ==
    Returned =>
        /\ Len(findAll_img(soup)) = Len(OriginalImgs)
        /\ \A n \in 1..Len(OriginalImgs) :
              /\ PathOfSrc(OriginalImgs[n].src) \in DOMAIN file_map
              /\ findAll_img(soup)[n].src = file_map[PathOfSrc(OriginalImgs[n].src)].filename
        /\ \A n \in 1..Len(ImgTokens(output)) :
              \E p \in DOMAIN file_map : ImgTokens(output)[n].src = file_map[p].filename

(* a returned run over a document with two img elements of different src   *)
(* and one canonical path, with one record and one rewritten src           *)
C4_Witness ==
    /\ Returned
    /\ Cardinality(DOMAIN file_map) = 1
    /\ \E n, m \in 1..Len(OriginalImgs) :
          /\ OriginalImgs[n].src # OriginalImgs[m].src
          /\ PathOfSrc(OriginalImgs[n].src) = PathOfSrc(OriginalImgs[m].src)
          /\ findAll_img(soup)[n].src = findAll_img(soup)[m].src
          /\ Len(ImgTokens(output)) = 2

(* the lines of a text: the pieces that end with a newline character *)
LinesOf(text) == SubSeq(split(text, Newline), 1, Len(split(text, Newline)) - 1)

Remainder(text) == split(text, Newline)[Len(split(text, Newline))]

HasChar(text, c) == \E n \in 1..Len(text) : text[n].k = "ch" /\ text[n].c = c

(* the rows of the first table of the document, in document order *)
FirstTable ==
    soup[CHOOSE n \in 1..Len(soup) :
            soup[n].k = "table" /\ \A m \in 1..(n - 1) : soup[m].k # "table"]

TableRows == findAll_tr(FirstTable.rows)

RawNewlines(cell) ==
    {n \in 1..Len(renderContents(cell)) :
        renderContents(cell)[n].k = "ch" /\ renderContents(cell)[n].c \in {"\n", "\r"}}

(* C9: the text returned by run() is one line per emitted row, each        *)
(* question + tab + answer + newline with no raw carriage return or line   *)
(* feed inside a field, so it has as many newline characters as rows.      *)
C9_OneLinePerRow ==
    Returned =>
        /\ Len(LinesOf(output)) = Len(TableRows)
        /\ Remainder(output) = <<>>
        /\ ~HasChar(output, "\r")
        /\ \A n \in 1..Len(LinesOf(output)) :
              \E t \in 1..Len(LinesOf(output)[n]) :
                 /\ LinesOf(output)[n][t] = Tab
                 /\ Len(LinesOf(output)[n]) =
                       Len(renderContents(TableRows[n][1])) - Cardinality(RawNewlines(TableRows[n][1]))
                       + 1
                       + Len(renderContents(TableRows[n][2])) - Cardinality(RawNewlines(TableRows[n][2]))

(* a returned run over cells that hold carriage returns and line feeds *)
C9_Witness ==
    /\ Returned
    /\ Len(LinesOf(output)) = 2
    /\ \E n \in 1..2 : \E c \in 1..2 :
          /\ HasChar(renderContents(TableRows[n][c]), "\r")
          /\ HasChar(renderContents(TableRows[n][c]), "\n")

Field(cell) == SelectSeq(renderContents(cell), LAMBDA t : ~(t.k = "ch" /\ t.c \in {"\n", "\r"}))

(* C10: run() emits one line per row of the first table of the root HTML,  *)
(* in document order, made of the row's first two direct child cells       *)
(* (later cells are ignored); a root HTML with one table of two rows and   *)
(* two columns and no image, alone in its archive, gives two lines and an  *)
(* empty file_map.                                                         *)
C10_RowsOfFirstTable ==
    Returned =>
        /\ has_table(html(message).text)
        /\ Len(LinesOf(output)) = Len(TableRows)
        /\ \A n \in 1..Len(TableRows) :
              LinesOf(output)[n] = Field(TableRows[n][1]) \o <<Tab>> \o Field(TableRows[n][2])
        /\ message = Archive(<<"html">>, DocPlainTable) =>
              /\ Len(LinesOf(output)) = 2
              /\ file_map = EmptyMap
              /\ DOMAIN tmpfiles = {}

(* the run over that archive returned two lines *)
C10_Witness ==
    /\ Returned
    /\ message = Archive(<<"html">>, DocPlainTable)
    /\ Len(LinesOf(output)) = 2

(* the parts without filename of a mimetype, the message itself included *)
TextParts(mimetype) ==
    {part \in Descendants(message) \cup {message} :
        ~part.multi /\ part.filename = None /\ part.ctype = mimetype}

(* C13: what Text.html(message) returns, and Parser.__init__ keeps as the  *)
(* root document, is the content and Content-Location of a part without    *)
(* filename whose mimetype is text/html, also when a text/plain part comes *)
(* first in a multipart message; and Text.text returns only the content of *)
(* a text/plain part.                                                      *)
C13_HtmlOnlyFromHtmlPart ==
    /\ pc = "files" =>
          \E part \in TextParts("text/html") :
              /\ soup = part.content
              /\ root = dirname(urlparse_path(part.loc))
    /\ (pc # "new" /\ Text_text(message).found) =>
          \E part \in TextParts("text/plain") : Text_text(message).text = part.content

(* C14: file_map is modified only in the attachment loop, by a step that   *)
(* takes one more attachment from the generator and stays in that loop;    *)
(* the step that makes the lookups of the image phase and every later step *)
(* of run() leave it as it is: no record is added, replaced or removed.    *)
C14_MapBuiltBeforeLookups ==
    [][/\ file_map' # file_map => (pc = "files" /\ pc' = "files" /\ att_i' = att_i + 1)
       /\ pc \in {"rows", "done", "error"} => file_map' = file_map]_vars

(* run() returned after the lookup of two images in a map of two records *)
C14_Witness ==
    /\ Returned
    /\ Cardinality(DOMAIN file_map) = 2
    /\ Len(OriginalImgs) = 2
    /\ \A n \in 1..2 : PathOfSrc(OriginalImgs[n].src) \in DOMAIN file_map

(* the img elements of the root HTML whose src resolves to a canonical     *)
(* path that file_map does not hold                                        *)
MissingImgs ==
    {n \in 1..Len(OriginalImgs) : PathOfSrc(OriginalImgs[n].src) \notin DOMAIN file_map}

PastFiles == pc \in {"rows", "done", "error"}

(* C16: when an img src of the root HTML resolves to a canonical path      *)
(* absent from file_map, run() ends with an error and returns no text: it  *)
(* never reaches the rows and never returns an output, so a returned       *)
(* output has no img whose src was left as it was for want of a record.    *)
C16_MissingImageFails ==
    /\ (PastFiles /\ MissingImgs # {}) => (pc = "error" /\ err # "none" /\ output = None)
    /\ output # None =>
          /\ MissingImgs = {}
          /\ \A n \in 1..Len(findAll_img(soup)) :
                \E p \in DOMAIN file_map : findAll_img(soup)[n].src = file_map[p].filename

(* the archive holds the image /d/b/i, its document refers to a/j: the     *)
(* lookup of the image phase failed, after the file of /d/b/i was written  *)
C16_Witness ==
    /\ message = Archive(<<"html", "imgB">>, DocMissingImg)
    /\ Cardinality(DOMAIN file_map) = 1
    /\ att_i = 2
    /\ MissingImgs = {1}
    /\ pc = "error"
    /\ err = "AttributeError"
    /\ output = None

(* the rows of the first table that have fewer than two direct child cells *)
ShortRows == {n \in 1..Len(TableRows) : Len(TableRows[n]) < 2}

(* C17: a row of the first table with fewer than two direct child cells    *)
(* makes run() fail, not skip the row: the step over the rows of such a    *)
(* table ends in an error (IndexError) without output, also when rows      *)
(* before the short one are well-formed; so an output that was returned    *)
(* comes from a table without short row and has one line for every row.    *)
C17_ShortRowFails ==
    /\ [][(pc = "rows" /\ has_table(soup) /\ ShortRows # {}) =>
             (pc' \in {"rows", "error"} /\ output' = None
              /\ (pc' = "error" => err' = "IndexError"))]_vars
    /\ [](output # None =>
             /\ has_table(soup)
             /\ ShortRows = {}
             /\ Len(SelectSeq(output, LAMBDA t : t = Newline)) = Len(TableRows))

(* the second row of the table has one cell, the first has two: the run    *)
(* failed without output                                                   *)
C17_Witness ==
    /\ message = Archive(<<"html">>, DocShortRow)
    /\ pc = "error"
    /\ err = "IndexError"
    /\ ShortRows = {2}
    /\ output = None

(***************************************************************************)
(* Properties of Attachment.decode_filename (specification SpecDecode)     *)
(***************************************************************************)
Called == d_out # Pending

NoEncodedWord(h) == h # None /\ \A n \in 1..Len(h) : h[n] \notin EWords

Blank(h, n) == h[n] = " "

(* the text without its leading and trailing blanks *)
Trimmed(h) ==
    IF \A n \in 1..Len(h) : Blank(h, n) THEN <<>>
    ELSE SubSeq(h, CHOOSE n \in 1..Len(h) : ~Blank(h, n) /\ \A m \in 1..(n - 1) : Blank(h, m),
                   CHOOSE n \in 1..Len(h) : ~Blank(h, n) /\ \A m \in (n + 1)..Len(h) : Blank(h, m))

(* C7 as stated: a header value without encoded word is returned           *)
(* unchanged, leading and trailing whitespace included.                    *)
C7_Identity ==
    (Called /\ NoEncodedWord(d_in)) => (d_out.exc = "none" /\ d_out.val = d_in)

(* C7: a header value without encoded word is returned with its leading    *)
(* and trailing whitespace removed when it is ASCII, and unchanged when it *)
(* holds a byte that is not ASCII.                                         *)
C7_IdentityUpToTrim ==
    (Called /\ NoEncodedWord(d_in)) =>
        /\ d_out.exc = "none"
        /\ d_out.val = IF \E n \in 1..Len(d_in) : d_in[n] = "e9" THEN d_in ELSE Trimmed(d_in)

(* " a " was decoded to "a" *)
C7_Witness ==
    /\ Called
    /\ d_in = <<" ", "a", " ">>
    /\ d_out.val = <<"a">>

(* a piece as the decoder is to leave it: decoded, or its undecoded text   *)
(* when its charset is unknown or its bytes are invalid for the charset    *)
PieceOrRaw(piece) ==
    IF piece.charset = NoCharset THEN piece.text
    ELSE IF piece.charset = "utf-8" /\ (\A n \in 1..Len(piece.text) : piece.text[n] # "e9")
         THEN piece.text
    ELSE IF piece.charset = "utf-16" /\ Len(piece.text) % 2 = 0
         THEN [n \in 1..(Len(piece.text) \div 2) |-> "u6161"]
    ELSE piece.text

RECURSIVE PiecesOrRaw(_)
PiecesOrRaw(pieces) ==
    IF pieces = <<>> THEN <<>> ELSE PieceOrRaw(Head(pieces)) \o PiecesOrRaw(Tail(pieces))

(* C8: a decoding failure of one piece (invalid bytes, unknown charset)    *)
(* never raises out of the decoder and never aborts the header: the piece  *)
(* is left undecoded, the other pieces are decoded, all are concatenated.  *)
C8_PieceFailureIsLocal ==
    (Called /\ d_in # None) =>
        /\ d_out.exc = "none"
        /\ d_out.val = Trimmed(PiecesOrRaw(decode_header(d_in)))

(***************************************************************************)
(* Properties of Attachment.extract (specification SpecExtract)            *)
(***************************************************************************)
(* the candidates of the walk in document order: the children of the      *)
(* message, a multipart/alternative child that has sub-parts replaced by   *)
(* its own candidates                                                      *)
RECURSIVE Candidates(_)
Candidates(kids) ==
    IF kids = <<>> THEN <<>>
    ELSE (IF Flattened(Head(kids)) THEN Candidates(Head(kids).kids) ELSE <<Head(kids)>>)
         \o Candidates(Tail(kids))

(* the generator of Attachment.extract is exhausted *)
WalkOver == pc = "exhausted"

(* decoding the content of the part raises a text-encoding error *)
ContentFails(part) == ~part.multi /\ part.bad

(* decoding a piece of the filename of the part raises a text-encoding error *)
FilenameFails(part) ==
    /\ part.filename # None
    /\ \E n \in 1..Len(decode_header(part.filename)) :
          LET piece == decode_header(part.filename)[n]
          IN  /\ piece.charset \in KnownCharsets
              /\ str_decode(piece.text, piece.charset).exc = "UnicodeDecodeError"

DecodableCandidates ==
    SelectSeq(Candidates(message.kids), LAMBDA c : ~ContentFails(c) /\ ~FilenameFails(c))

KeptCandidates == SelectSeq(Candidates(message.kids), LAMBDA c : ~ContentFails(c))

(* C12 as stated: a candidate whose content or filename fails to decode    *)
(* with a text-encoding error is absent from the sequence, and the others  *)
(* are yielded as if it did not exist.                                     *)
C12_FailedCandidateAbsent ==
    /\ Len(yielded) <= Len(DecodableCandidates)
    /\ \A n \in 1..Len(yielded) : yielded[n].part = DecodableCandidates[n]

(* C12: a candidate whose content fails to decode with a text-encoding     *)
(* error is absent from the sequence and the walk continues: the items     *)
(* yielded are, in order, the other candidates, as if it did not exist; a  *)
(* candidate whose filename fails to decode with a text-encoding error is  *)
(* yielded, its filename being the pieces of the header joined and         *)
(* trimmed, a piece that failed kept as its undecoded bytes, or the raw     *)
(* header when those bytes are not ASCII and the join fails.               *)
C12_UndecodableContentSkipped ==
    /\ Len(yielded) <= Len(KeptCandidates)
    /\ \A n \in 1..Len(yielded) :
          /\ yielded[n].part = KeptCandidates[n]
          /\ yielded[n].exc = "none"
          /\ yielded[n].content =
                IF yielded[n].part.multi THEN AsString(yielded[n].part)
                ELSE yielded[n].part.content
          /\ FilenameFails(yielded[n].part) =>
                LET raw    == yielded[n].part.filename
                    joined == PiecesOrRaw(decode_header(raw))
                IN  yielded[n].filename = IF IsAscii(joined) THEN Trimmed(joined) ELSE raw
    /\ WalkOver => Len(yielded) = Len(KeptCandidates)

(* the walk is over; a candidate whose content fails to decode is followed *)
(* by a candidate that was yielded; candidates whose filename fails to     *)
(* decode were yielded, one with the bytes of the failed piece as its      *)
(* filename and one with the raw header                                    *)
C12_Witness ==
    /\ WalkOver
    /\ \E n, m \in 1..Len(Candidates(message.kids)) :
          /\ n < m
          /\ ContentFails(Candidates(message.kids)[n])
          /\ Candidates(message.kids)[m] \in YieldedParts
    /\ \E n \in 1..Len(yielded) :
          /\ FilenameFails(yielded[n].part)
          /\ yielded[n].filename # yielded[n].part.filename
    /\ \E n \in 1..Len(yielded) :
          /\ FilenameFails(yielded[n].part)
          /\ yielded[n].filename = yielded[n].part.filename

(***************************************************************************)
(* Properties of MetaData._address (specification SpecMeta)                *)
(***************************************************************************)
Named(map, a) == a \in DOMAIN map /\ map[a] # None

(* C5: once a non-empty name is recorded for an address, a later           *)
(* occurrence of the address without a name, in the same header or in a    *)
(* later one, does not replace or erase the name.                          *)
C5_NameKept ==
    [][/\ \A a \in DOMAIN names :
             (Named(names, a) /\ m_pc \in {"idle", "loop"}) => Named(names', a)
       /\ \A a \in DOMAIN result : (Named(result, a) /\ m_pc = "loop") => Named(result', a)]_vars

StrictlyAscending(list) == \A n \in 1..(Len(list) - 1) : StrLess(list[n], list[n + 1])

AddrAB == <<"a", "@", "b">>

AddrBA == <<"b", "@", "a">>

(* C6: _address returns its addresses in strictly ascending order, and     *)
(* they are exactly the addresses the iterative parse consumed; the        *)
(* header "=?utf-8?b?Sg==?= <b@a>, a@b" gives [a@b, b@a], the name J for   *)
(* b@a and no name for a@b.                                                *)
C6_SortedAddresses ==
    /\ \A n \in DOMAIN returned : StrictlyAscending(returned[n])
    /\ (m_pc \in {"idle", "set"} /\ m_hdr > 1) =>
          {returned[m_hdr - 1][n] : n \in 1..Len(returned[m_hdr - 1])}
              = {encode(a) : a \in DOMAIN result}
    /\ (headers[1] = HdrTwo /\ m_hdr = 2) =>
          /\ returned[1] = <<AddrAB, AddrBA>>
          /\ names = [a \in {AddrAB, AddrBA} |-> IF a = AddrBA THEN <<"J">> ELSE None]

(* the call on that header returned two addresses *)
C6_Witness ==
    /\ headers[1] = HdrTwo
    /\ m_hdr = 2
    /\ Len(returned[1]) = 2

InLoop == m_pc = "loop"

(* C15: each turn of the loop moves the cursor past the parsed             *)
(* address, also when the address does not occur literally in the          *)
(* remaining text: the text left is shorter by the length of the address   *)
(* at least.                                                               *)
C15_CursorPastAddress ==
    [][(InLoop /\ header_value' # header_value) =>
           Len(header_value') <= Len(header_value) - Len(m_address)]_vars

(***************************************************************************)
(* Properties of importMHT (specification SpecImport)                      *)
(***************************************************************************)
Left == i_pc \in {"returned", "raised"}

(* C11: on every exit path of importMHT the container directory is         *)
(* removed: when its removal is attempted no file is inside it any more,   *)
(* so once importMHT is left no container that was created still exists    *)
(* and the removal has not failed on a directory that is not empty.        *)
C11_ContainerRemoved ==
    Left => (container # "exists" /\ inside = {})

====
